---- MODULE Spec2Model ----
(***************************************************************************)
(* Snapshot segments of reth: the segment header (block range, optional    *)
(* transaction range, segment kind) with its kind-dependent mutations, and *)
(* the file name codec of crates/primitives/src/snapshot/segment.rs.       *)
(*                                                                         *)
(* u64 is scaled: TLC's integers are 32 bits wide, so the model's u64 runs *)
(* over 0..MaxU64 and all u64 arithmetic is done modulo MaxU64 + 1.        *)
(* Arithmetic overflow is build-dependent in Rust: with overflow checks    *)
(* (debug builds) it panics, without them (release builds) it wraps.  The  *)
(* build is chosen once, in Init (overflow_checks).                        *)
(***************************************************************************)
EXTENDS Integers, Sequences, FiniteSets, TLC

\* The largest value of the model's (scaled) u64.
MaxU64 == 11

VARIABLES
    header,          \* the SegmentHeader the producer owns
    prev,            \* the header as it was before the last call
    call,            \* the last call: [op |-> name, args |-> <<...>>]
    result,          \* its outcome: [panicked |-> BOOLEAN, value |-> <<>> or <<v>>]
    overflow_checks, \* TRUE: the build panics on overflow; FALSE: it wraps
    tx_calls,        \* history: the increment_tx calls since tx_range was None
    name,            \* the file name under consideration, a sequence of characters
    origin,          \* where name comes from: an encoder call, or the directory
    parsed,          \* NotParsed, or Parsed(parse_filename(name))
    run,             \* history: the header before a run of appends, and the run
    dir,             \* the WAL directory: file name |-> the bytes of the file
    wal_call,        \* the last Storage call: [op |-> name, args |-> <<...>>]
    wal_result,      \* its outcome: [ok |-> BOOLEAN, value |-> ...]
    written          \* history: file id |-> the entry written and not removed since

vars ==
    <<header, prev, call, result, overflow_checks, tx_calls, name, origin, parsed,
      run, dir, wal_call, wal_result, written>>

headerVars == <<header, prev, call, result, overflow_checks, tx_calls>>

codecVars == <<name, origin, parsed>>

walVars == <<dir, wal_call, wal_result, written>>

U64 == 0..MaxU64

\* ---------------------------------------------------------------- values

\* Option<T>: None is the empty sequence, Some(x) the one-element sequence.
None == <<>>

Some(x) == <<x>>

\* The unit value () of a call that returns nothing.
Unit == <<>>

SnapshotSegment == {"Headers", "Transactions", "Receipts"}

\* SegmentRangeInclusive::new: no validation of start <= end.
SegmentRangeInclusive(start, end) == [start |-> start, end |-> end]

\* SegmentHeader::new: stores its three arguments as given.
SegmentHeader(block_range, tx_range, segment) ==
    [block_range |-> block_range, tx_range |-> tx_range, segment |-> segment]

\* ------------------------------------------------------- u64 arithmetic

\* a + b on u64: whether it overflows, and the wrapped value.
u64_add(a, b) ==
    [overflow |-> a + b > MaxU64, value |-> (a + b) % (MaxU64 + 1)]

\* a - b on u64: whether it overflows, and the wrapped value.
u64_sub(a, b) ==
    [overflow |-> b > a, value |-> (a - b + MaxU64 + 1) % (MaxU64 + 1)]

\* u64::saturating_sub
saturating_sub(a, b) == IF b > a THEN 0 ELSE a - b

\* ------------------------------------------------------ outcome of a call

\* The call returned v and left the header as h.
Ok(h, v) == [panicked |-> FALSE, header |-> h, value |-> v]

\* The call panicked; nothing was stored, the header is still h.
Panic(h) == [panicked |-> TRUE, header |-> h, value |-> <<>>]

\* An arithmetic result r of u64_add / u64_sub stored by `store`: a panic in a
\* build with overflow checks, the wrapped value otherwise.
Checked(h, r, stored, v) ==
    IF r.overflow /\ overflow_checks THEN Panic(h) ELSE Ok(stored, v)

\* --------------------------------------------------- SegmentHeader methods

block_start(h) == Ok(h, Some(h.block_range.start))

block_end(h) == Ok(h, Some(h.block_range.end))

\* tx_start with a default in place of the panic.
tx_start_or_zero(h) ==
    IF h.tx_range = None THEN Ok(h, Some(0)) ELSE Ok(h, Some(h.tx_range[1].start))

\* self.tx_range.as_ref().expect("should exist").start()
tx_start(h) ==
    IF h.tx_range = None THEN Panic(h) ELSE Ok(h, Some(h.tx_range[1].start))

\* self.tx_range.as_ref().expect("should exist").end()
tx_end(h) ==
    IF h.tx_range = None THEN Panic(h) ELSE Ok(h, Some(h.tx_range[1].end))

\* tx_range.end() + 1 - tx_range.start(), each step a u64 operation
tx_len(h) ==
    IF h.tx_range = None THEN Panic(h)
    ELSE LET plus == u64_add(h.tx_range[1].end, 1)
             minus == u64_sub(plus.value, h.tx_range[1].start)
         IN  IF overflow_checks /\ (plus.overflow \/ minus.overflow)
             THEN Panic(h)
             ELSE Ok(h, Some(minus.value))

\* block_range.end() + 1 - block_range.start(), each step a u64 operation
block_len(h) ==
    LET plus == u64_add(h.block_range.end, 1)
        minus == u64_sub(plus.value, h.block_range.start)
    IN  IF overflow_checks /\ (plus.overflow \/ minus.overflow)
        THEN Panic(h)
        ELSE Ok(h, Some(minus.value))

\* increment_block advancing only the kind that is addressed by block number.
increment_block_headers_only(h) ==
    IF h.segment # "Headers" THEN Ok(h, Unit)
    ELSE LET plus == u64_add(h.block_range.end, 1)
         IN  Checked(h, plus, [h EXCEPT !.block_range.end = plus.value], Unit)

\* self.block_range.end += 1
increment_block(h) ==
    LET plus == u64_add(h.block_range.end, 1)
    IN  Checked(h, plus, [h EXCEPT !.block_range.end = plus.value], Unit)

\* increment_tx starting the transaction range at the block range's start.
increment_tx_from_block(h) ==
    IF h.segment = "Headers" THEN Ok(h, Unit)
    ELSE IF h.tx_range # None
         THEN LET plus == u64_add(h.tx_range[1].end, 1)
              IN  Checked(h, plus, [h EXCEPT !.tx_range[1].end = plus.value], Unit)
         ELSE Ok([h EXCEPT !.tx_range =
                      Some(SegmentRangeInclusive(h.block_range.start,
                                                 h.block_range.start))], Unit)

increment_tx(h) ==
    IF h.segment = "Headers" THEN Ok(h, Unit)
    ELSE IF h.tx_range # None
         THEN LET plus == u64_add(h.tx_range[1].end, 1)
              IN  Checked(h, plus, [h EXCEPT !.tx_range[1].end = plus.value], Unit)
         ELSE Ok([h EXCEPT !.tx_range = Some(SegmentRangeInclusive(0, 0))], Unit)

\* prune dropping the transaction range one element early (>= for >).
prune_ge(h, num) ==
    IF h.segment = "Headers"
    THEN Ok([h EXCEPT !.block_range.end = saturating_sub(@, num)], Unit)
    ELSE IF h.tx_range # None
         THEN IF num >= h.tx_range[1].end
              THEN Ok([h EXCEPT !.tx_range = None], Unit)
              ELSE Ok([h EXCEPT !.tx_range[1].end = saturating_sub(@, num)], Unit)
         ELSE Ok(h, Unit)

\* prune with a wrapping subtraction on the block range.
prune_wrapping(h, num) ==
    IF h.segment = "Headers"
    THEN Ok([h EXCEPT !.block_range.end = u64_sub(@, num).value], Unit)
    ELSE IF h.tx_range # None
         THEN IF num > h.tx_range[1].end
              THEN Ok([h EXCEPT !.tx_range = None], Unit)
              ELSE Ok([h EXCEPT !.tx_range[1].end = saturating_sub(@, num)], Unit)
         ELSE Ok(h, Unit)

\* prune that shortens a transaction range and never drops it.
prune_never_none(h, num) ==
    IF h.segment = "Headers"
    THEN Ok([h EXCEPT !.block_range.end = saturating_sub(@, num)], Unit)
    ELSE IF h.tx_range # None
         THEN Ok([h EXCEPT !.tx_range[1].end = saturating_sub(@, num)], Unit)
         ELSE Ok(h, Unit)

\* prune shortening the block range of every kind.
prune_blocks_too(h, num) ==
    IF h.segment = "Headers"
    THEN Ok([h EXCEPT !.block_range.end = saturating_sub(@, num)], Unit)
    ELSE IF h.tx_range # None
         THEN IF num > h.tx_range[1].end
              THEN Ok([h EXCEPT !.tx_range = None,
                                !.block_range.end = saturating_sub(@, num)], Unit)
              ELSE Ok([h EXCEPT !.tx_range[1].end = saturating_sub(@, num),
                                !.block_range.end = saturating_sub(@, num)], Unit)
         ELSE Ok(h, Unit)

prune(h, num) ==
    IF h.segment = "Headers"
    THEN Ok([h EXCEPT !.block_range.end = saturating_sub(@, num)], Unit)
    ELSE IF h.tx_range # None
         THEN IF num > h.tx_range[1].end
              THEN Ok([h EXCEPT !.tx_range = None], Unit)
              ELSE Ok([h EXCEPT !.tx_range[1].end = saturating_sub(@, num)], Unit)
         ELSE Ok(h, Unit)

set_block_range(h, block_start_, block_end_) ==
    Ok([h EXCEPT !.block_range.start = block_start_,
                 !.block_range.end = block_end_], Unit)

\* set_tx_range overwriting only a transaction range that is there.
set_tx_range_if_some(h, tx_start_, tx_end_) ==
    IF h.tx_range # None
    THEN Ok([h EXCEPT !.tx_range[1].start = tx_start_,
                      !.tx_range[1].end = tx_end_], Unit)
    ELSE Ok(h, Unit)

set_tx_range(h, tx_start_, tx_end_) ==
    IF h.tx_range # None
    THEN Ok([h EXCEPT !.tx_range[1].start = tx_start_,
                      !.tx_range[1].end = tx_end_], Unit)
    ELSE Ok([h EXCEPT !.tx_range = Some(SegmentRangeInclusive(tx_start_, tx_end_))],
            Unit)

\* start without the dispatch on the kind.
start_of_blocks(h) == block_start(h)

start(h) ==
    IF h.segment = "Headers" THEN block_start(h) ELSE tx_start(h)

\* ------------------------------------------------------------ file names

\* A string is the sequence of its characters.
SNAPSHOT == <<"s", "n", "a", "p", "s", "h", "o", "t">>

SEP == "_"

DigitChars == <<"0", "1", "2", "3", "4", "5", "6", "7", "8", "9">>

\* AsRefStr of SnapshotSegment: the strum serialize tag of the variant.
as_ref(segment) ==
    CASE segment = "Headers" -> <<"h", "e", "a", "d", "e", "r", "s">>
      [] segment = "Transactions" ->
            <<"t", "r", "a", "n", "s", "a", "c", "t", "i", "o", "n", "s">>
      [] segment = "Receipts" -> <<"r", "e", "c", "e", "i", "p", "t", "s">>

\* EnumString of SnapshotSegment: the variant whose serialize tag is exactly s.
from_str(s) ==
    IF \E k \in SnapshotSegment : as_ref(k) = s
    THEN Some(CHOOSE k \in SnapshotSegment : as_ref(k) = s)
    ELSE None

\* The decimal digits of a u64 the wrong way round, least significant first.
RECURSIVE to_string_reversed(_)
to_string_reversed(n) ==
    IF n < 10 THEN <<DigitChars[n + 1]>>
    ELSE <<DigitChars[(n % 10) + 1]>> \o to_string_reversed(n \div 10)

\* Display of a u64: its decimal digits, most significant first, no padding.
RECURSIVE to_string(_)
to_string(n) ==
    IF n < 10 THEN <<DigitChars[n + 1]>>
    ELSE to_string(n \div 10) \o <<DigitChars[(n % 10) + 1]>>

\* char::to_digit(10)
to_digit(c) ==
    IF \E d \in 1..10 : DigitChars[d] = c
    THEN Some((CHOOSE d \in 1..10 : DigitChars[d] = c) - 1)
    ELSE None

\* The digits of str::parse::<u64> folded left to right with checked_mul and
\* checked_add: None on a character that is no digit and on overflow.
RECURSIVE parse_digits(_, _)
parse_digits(acc, s) ==
    IF s = <<>> THEN Some(acc)
    ELSE LET d == to_digit(Head(s))
         IN  IF d = None THEN None
             ELSE IF acc * 10 + d[1] > MaxU64 THEN None
             ELSE parse_digits(acc * 10 + d[1], Tail(s))

\* str::parse::<u64>: empty is an error, a lone sign is an error, one leading
\* '+' is skipped (a '-' is not, for an unsigned type), the rest are digits.
parse_u64(s) ==
    IF s = <<>> THEN None
    ELSE IF Len(s) = 1 /\ s[1] \in {"+", "-"} THEN None
    ELSE IF s[1] = "+" THEN parse_digits(0, Tail(s))
    ELSE parse_digits(0, s)

\* str::split('_'): the pieces between separators, empty ones included; a
\* string with no separator is one piece.
RECURSIVE split(_)
split(s) ==
    IF \A i \in 1..Len(s) : s[i] # SEP THEN <<s>>
    ELSE LET i == CHOOSE j \in 1..Len(s) :
                      s[j] = SEP /\ \A l \in 1..(j - 1) : s[l] # SEP
         IN  <<SubSeq(s, 1, i - 1)>> \o split(SubSeq(s, i + 1, Len(s)))

\* Iterator::next on the pieces: the i-th piece, if there is one.
nth(parts, i) == IF i <= Len(parts) THEN Some(parts[i]) ELSE None

\* filename with the two ends of the range in the wrong order.
filename_swapped(segment, block_range) ==
    SNAPSHOT \o <<SEP>> \o as_ref(segment) \o <<SEP>>
        \o to_string(block_range.end) \o <<SEP>> \o to_string(block_range.start)

\* format!("snapshot_{}_{}_{}", self.as_ref(), start, end)
filename(segment, block_range) ==
    SNAPSHOT \o <<SEP>> \o as_ref(segment) \o <<SEP>>
        \o to_string(block_range.start) \o <<SEP>> \o to_string(block_range.end)

\* Filters: WithoutFilters, or WithFilters(inclusion filter, phf).
WithoutFilters == <<"WithoutFilters">>

WithFilters(inclusion_filter, phf) == <<"WithFilters", inclusion_filter, phf>>

InclusionFilter == {"Cuckoo"}

PerfectHashingFunction == {"Fmph"}

Compression == {"Lz4", "Zstd", "ZstdWithDictionary"}

Filters ==
    {WithoutFilters}
        \cup {WithFilters(i, p) : i \in InclusionFilter, p \in PerfectHashingFunction}

inclusion_filter_as_ref(i) == <<"c", "u", "c", "k", "o", "o">>

phf_as_ref(p) == <<"f", "m", "p", "h">>

compression_as_ref(c) ==
    CASE c = "Lz4" -> <<"l", "z", "4">>
      [] c = "Zstd" -> <<"z", "s", "t", "d">>
      [] c = "ZstdWithDictionary" -> <<"z", "s", "t", "d", "-", "d", "i", "c", "t">>

\* filename_with_configuration without the separator after the prefix.
filename_with_configuration_glued(segment, filters, compression, block_range) ==
    LET prefix == filename(segment, block_range)
        filters_name ==
            IF filters[1] = "WithFilters"
            THEN inclusion_filter_as_ref(filters[2]) \o <<"-">> \o phf_as_ref(filters[3])
            ELSE <<"n", "o", "n", "e">>
    IN  prefix \o filters_name \o <<SEP>> \o compression_as_ref(compression)

\* filename_with_configuration joining the two filter tags with the separator.
filename_with_configuration_split(segment, filters, compression, block_range) ==
    LET prefix == filename(segment, block_range)
        filters_name ==
            IF filters[1] = "WithFilters"
            THEN inclusion_filter_as_ref(filters[2]) \o <<SEP>> \o phf_as_ref(filters[3])
            ELSE <<"n", "o", "n", "e">>
    IN  prefix \o <<SEP>> \o filters_name \o <<SEP>> \o compression_as_ref(compression)

filename_with_configuration(segment, filters, compression, block_range) ==
    LET prefix == filename(segment, block_range)
        filters_name ==
            IF filters[1] = "WithFilters"
            THEN inclusion_filter_as_ref(filters[2]) \o <<"-">> \o phf_as_ref(filters[3])
            ELSE <<"n", "o", "n", "e">>
    IN  prefix \o <<SEP>> \o filters_name \o <<SEP>> \o compression_as_ref(compression)

\* parse_filename without the check of block_start > block_end.
parse_filename_unordered(s) ==
    LET parts == split(s)
    IN  IF /\ Len(parts) >= 4
           /\ parts[1] = SNAPSHOT
           /\ from_str(parts[2]) # None
           /\ parse_u64(parts[3]) # None
           /\ parse_u64(parts[4]) # None
        THEN Some(<<from_str(parts[2])[1],
                    SegmentRangeInclusive(parse_u64(parts[3])[1],
                                          parse_u64(parts[4])[1])>>)
        ELSE None

\* parse_filename refusing a name with more than the four pieces.
parse_filename_exact(s) ==
    LET parts == split(s)
    IN  IF /\ Len(parts) = 4
           /\ parts[1] = SNAPSHOT
           /\ from_str(parts[2]) # None
           /\ parse_u64(parts[3]) # None
           /\ parse_u64(parts[4]) # None
           /\ parse_u64(parts[3])[1] <= parse_u64(parts[4])[1]
        THEN Some(<<from_str(parts[2])[1],
                    SegmentRangeInclusive(parse_u64(parts[3])[1],
                                          parse_u64(parts[4])[1])>>)
        ELSE None

parse_filename(s) ==
    LET parts == split(s)
    IN  IF nth(parts, 1) # Some(SNAPSHOT) THEN None
        ELSE IF nth(parts, 2) = None THEN None
        ELSE LET segment == from_str(nth(parts, 2)[1])
             IN  IF segment = None THEN None
                 ELSE IF nth(parts, 3) = None THEN None
                 ELSE LET block_start_ == parse_u64(nth(parts, 3)[1])
                      IN  IF block_start_ = None THEN None
                          ELSE IF nth(parts, 4) = None THEN None
                          ELSE LET block_end_ == parse_u64(nth(parts, 4)[1])
                               IN  IF block_end_ = None THEN None
                                   ELSE IF block_start_[1] > block_end_[1] THEN None
                                   ELSE Some(<<segment[1],
                                               SegmentRangeInclusive(block_start_[1],
                                                                     block_end_[1])>>)

\* ---------------------------------------------------------- codec inputs

\* The most pieces a name found in the directory has.
MaxTokens == 5

\* The range ends the producer names files with: one and two digits.
FileVals == {0, 2, MaxU64 - 1, MaxU64}

FileRanges == {SegmentRangeInclusive(s, e) : s \in FileVals, e \in FileVals}

\* The pieces of the names found in the directory, which is untrusted: the
\* prefix, a kind tag, numbers in and out of range, a signed and a padded
\* number, and the empty piece.
Tokens ==
    { SNAPSHOT, as_ref("Headers"), to_string(2), to_string(MaxU64),
      to_string(MaxU64 + 1), <<"+">> \o to_string(2), <<"0">> \o to_string(2),
      <<>> }

RECURSIVE join(_)
join(tokens) ==
    IF Len(tokens) = 1 THEN tokens[1]
    ELSE tokens[1] \o <<SEP>> \o join(Tail(tokens))

TokenSeqs == UNION {[1..n -> Tokens] : n \in 1..MaxTokens}

NotParsed == <<>>

\* No name yet.
NoOrigin ==
    [op |-> "none", segment |-> "Headers",
     block_range |-> SegmentRangeInclusive(0, 0), config |-> <<>>, tokens |-> <<>>]

Parsed(r) == <<r>>

\* ---------------------------------------------------------- codec actions

\* One file of the directory: it gets its name once (origin.op = "none"
\* before), from the producer or from whoever else writes to the directory,
\* and the consumer then decodes that name.

\* The producer names a segment file.
Filename ==
    /\ origin.op = "none"
    /\ \E k \in SnapshotSegment, r \in FileRanges :
        /\ name' = filename(k, r)
        /\ origin' = [op |-> "filename", segment |-> k, block_range |-> r,
                      config |-> <<>>, tokens |-> <<>>]
        /\ parsed' = NotParsed
        /\ UNCHANGED <<headerVars, run, walVars>>

FilenameWithConfiguration ==
    /\ origin.op = "none"
    /\ \E k \in SnapshotSegment, f \in Filters, c \in Compression, r \in FileRanges :
        /\ name' = filename_with_configuration(k, f, c, r)
        /\ origin' = [op |-> "filename_with_configuration", segment |-> k,
                      block_range |-> r, config |-> <<f, c>>, tokens |-> <<>>]
        /\ parsed' = NotParsed
        /\ UNCHANGED <<headerVars, run, walVars>>

\* The directory holds a file of any name.
DirEntry ==
    /\ origin.op = "none"
    /\ \E tokens \in TokenSeqs :
        /\ name' = join(tokens)
        /\ origin' = [op |-> "read_dir", segment |-> "Headers",
                      block_range |-> SegmentRangeInclusive(0, 0), config |-> <<>>,
                      tokens |-> tokens]
        /\ parsed' = NotParsed
        /\ UNCHANGED <<headerVars, run, walVars>>

\* The consumer decodes the name.
ParseFilename ==
    /\ origin.op # "none"
    /\ parsed = NotParsed
    /\ parsed' = Parsed(parse_filename(name))
    /\ UNCHANGED <<name, origin, headerVars, run, walVars>>

\* ----------------------------------------------------------------- inputs

\* The values the caller passes as range ends and starts.
Vals == {0, 1, MaxU64}

\* The amounts the caller prunes by.
PruneNums == {0, 1, 2, MaxU64}

Ranges == {SegmentRangeInclusive(s, e) : s \in Vals, e \in Vals}

OptRanges == {None} \cup {Some(r) : r \in Ranges}

\* ---------------------------------------------------------------- actions

\* The history variable tx_calls after the call op with outcome r: n when the
\* last n calls that touched tx_range were increment_tx calls on a
\* Transactions or Receipts header, the first of them on tx_range = None, and
\* none of them overflowed; 0 otherwise.
TxCallsAfter(op, r) ==
    IF r.panicked THEN tx_calls
    ELSE IF op = "increment_tx" /\ header.segment # "Headers"
    THEN IF header.tx_range = None THEN 1
         ELSE IF tx_calls > 0 /\ header.tx_range[1].end < MaxU64 THEN tx_calls + 1
         ELSE 0
    ELSE IF op \in {"prune", "set_tx_range"} THEN 0
    ELSE tx_calls

\* A call op(args) with outcome r on the header; a panic ends the process, so
\* nothing is called after one.
CallOn(op, args, r) ==
    /\ ~result.panicked
    /\ prev' = header
    /\ call' = [op |-> op, args |-> args]
    /\ header' = r.header
    /\ result' = [panicked |-> r.panicked, value |-> r.value]
    /\ tx_calls' = TxCallsAfter(op, r)
    /\ UNCHANGED <<overflow_checks, codecVars, walVars>>

\* A call outside a recorded run of appends.
Call(op, args, r) == CallOn(op, args, r) /\ UNCHANGED run

BlockStart == Call("block_start", <<>>, block_start(header))

BlockEnd == Call("block_end", <<>>, block_end(header))

TxStart == Call("tx_start", <<>>, tx_start(header))

TxEnd == Call("tx_end", <<>>, tx_end(header))

TxLen == Call("tx_len", <<>>, tx_len(header))

BlockLen == Call("block_len", <<>>, block_len(header))

Start == Call("start", <<>>, start(header))

IncrementBlock == Call("increment_block", <<>>, increment_block(header))

IncrementTx == Call("increment_tx", <<>>, increment_tx(header))

Prune == \E num \in PruneNums : Call("prune", <<num>>, prune(header, num))

SetBlockRange ==
    \E s \in Vals, e \in Vals :
        Call("set_block_range", <<s, e>>, set_block_range(header, s, e))

SetTxRange ==
    \E s \in Vals, e \in Vals :
        Call("set_tx_range", <<s, e>>, set_tx_range(header, s, e))

\* ------------------------------------------------- a run of appends, undone

\* The kinds whose tracked counter is the transaction range.
TracksTxKind(k) == k \in {"Transactions", "Receipts"}

\* The longest run of appends that is recorded.
MaxAppends == 3

\* No run is recorded.
NoRun == [base |-> <<>>, n |-> 0, overflow |-> FALSE, pruned |-> FALSE]

\* A run starts at the header h.
RunFrom(h) == [base |-> <<h>>, n |-> 0, overflow |-> FALSE, pruned |-> FALSE]

\* One more increment_tx in the run of a Transactions or Receipts header.
AppendTx ==
    /\ TracksTxKind(header.segment)
    /\ ~run.pruned
    /\ run.n < MaxAppends
    /\ CallOn("increment_tx", <<>>, increment_tx(header))
    /\ run' = [run EXCEPT !.n = @ + 1,
                          !.overflow = @ \/ (/\ header.tx_range # None
                                             /\ header.tx_range[1].end = MaxU64)]

\* One more increment_block in the run of a Headers header.
AppendBlock ==
    /\ ~TracksTxKind(header.segment)
    /\ ~run.pruned
    /\ run.n < MaxAppends
    /\ CallOn("increment_block", <<>>, increment_block(header))
    /\ run' = [run EXCEPT !.n = @ + 1,
                          !.overflow = @ \/ header.block_range.end = MaxU64]

\* prune(n) after the n appends of the run.
PruneAppended ==
    /\ ~run.pruned
    /\ run.n >= 1
    /\ CallOn("prune", <<run.n>>, prune(header, run.n))
    /\ run' = [run EXCEPT !.pruned = TRUE]

\* ------------------------------------------------------------ WAL storage

\* The largest file id in use.
MaxFileId == 2

FileIds == 0..MaxFileId

\* WalEntry { target, notification }, each field one of a few values.
NotificationCommitTarget == {"Commit", "Canonicalize"}

ExExNotification == {"ChainCommitted", "ChainReorged"}

WalEntry(target, notification) == [target |-> target, notification |-> notification]

WalEntries == {WalEntry(t, n) : t \in NotificationCommitTarget, n \in ExExNotification}

\* serde_json::to_writer: the entry as a JSON object, piece by piece.
to_writer(entry) ==
    <<"{", "target", entry.target, "notification", entry.notification, "}">>

\* serde_json::from_reader: the entry of a whole JSON object, or an error.
from_reader(bytes) ==
    IF /\ Len(bytes) = 6
       /\ bytes[1] = "{"
       /\ bytes[2] = "target"
       /\ bytes[3] \in NotificationCommitTarget
       /\ bytes[4] = "notification"
       /\ bytes[5] \in ExExNotification
       /\ bytes[6] = "}"
    THEN Some(WalEntry(bytes[3], bytes[5]))
    ELSE None

\* The outcome of a Storage call: Ok(v) or Err, and the directory after it.
WalOk(d, v) == [ok |-> TRUE, dir |-> d, value |-> v]

WalErr(d) == [ok |-> FALSE, dir |-> d, value |-> <<>>]

\* The directory d with the file p holding bytes, and without the file p.
put_file(d, p, bytes) == [q \in DOMAIN d \cup {p} |-> IF q = p THEN bytes ELSE d[q]]

remove_file(d, p) == [q \in DOMAIN d \ {p} |-> d[q]]

\* file_path with one name for every id.
file_path_shared(id) == <<"0", ".", "w", "a", "l">>

\* format!("{id}.wal"), the name within the storage directory
file_path(id) == to_string(id) \o <<".", "w", "a", "l">>

\* remove_file(file_path(file_id)): an error when there is no such file
remove_entry(d, file_id) ==
    IF file_path(file_id) \in DOMAIN d
    THEN WalOk(remove_file(d, file_path(file_id)), Unit)
    ELSE WalErr(d)

\* for id in first..=last { remove_entry(id)? }
RECURSIVE remove_each(_, _, _)
remove_each(d, first, last) ==
    IF first > last THEN WalOk(d, Unit)
    ELSE LET r == remove_entry(d, first)
         IN  IF r.ok THEN remove_each(r.dir, first + 1, last) ELSE r

\* remove_each, then range.count()
remove_entries(d, first, last) ==
    LET r == remove_each(d, first, last)
    IN  IF r.ok
        THEN WalOk(r.dir, IF first > last THEN 0 ELSE last - first + 1)
        ELSE r

\* File::open, then serde_json::from_reader
read_entry(d, file_id) ==
    IF file_path(file_id) \in DOMAIN d
    THEN LET entry == from_reader(d[file_path(file_id)])
         IN  IF entry = None THEN WalErr(d) ELSE WalOk(d, entry[1])
    ELSE WalErr(d)

\* range.map(read_entry): the outcome of reading each id of the range
entries(d, first, last) ==
    [i \in 1..(IF first > last THEN 0 ELSE last - first + 1) |->
        read_entry(d, first + i - 1)]

\* take_entries removing each entry as soon as it is read.
RECURSIVE take_entries_one_by_one(_, _, _)
take_entries_one_by_one(d, first, last) ==
    IF first > last THEN WalOk(d, <<>>)
    ELSE LET read == read_entry(d, first)
         IN  IF ~read.ok THEN WalErr(d)
             ELSE LET rest == take_entries_one_by_one(
                                  remove_entry(d, first).dir, first + 1, last)
                  IN  IF rest.ok
                      THEN WalOk(rest.dir, <<read.value>> \o rest.value)
                      ELSE rest

\* Every entry of the range is read first; only then is each removed.
take_entries(d, first, last) ==
    LET read == entries(d, first, last)
    IN  IF \E i \in DOMAIN read : ~read[i].ok THEN WalErr(d)
        ELSE LET r == remove_each(d, first, last)
             IN  IF r.ok
                 THEN WalOk(r.dir, [i \in DOMAIN read |-> read[i].value])
                 ELSE r

\* write_entry opening the file with File::create, which truncates a file
\* that is there.
write_entry_truncating(d, file_id, entry, accepted) ==
    IF accepted < Len(to_writer(entry))
    THEN WalErr(put_file(d, file_path(file_id), SubSeq(to_writer(entry), 1, accepted)))
    ELSE WalOk(put_file(d, file_path(file_id), to_writer(entry)), Unit)

\* File::create_new, then serde_json::to_writer and flush. The file system
\* takes `accepted` pieces of the entry; fewer than all is an I/O error that
\* leaves the file as far as it was written.
write_entry(d, file_id, entry, accepted) ==
    IF file_path(file_id) \in DOMAIN d THEN WalErr(d)
    ELSE IF accepted < Len(to_writer(entry))
    THEN WalErr(put_file(d, file_path(file_id), SubSeq(to_writer(entry), 1, accepted)))
    ELSE WalOk(put_file(d, file_path(file_id), to_writer(entry)), Unit)

\* How much of a write the file system may take: nothing, half, all of it.
Accepted(entry) ==
    {0, Len(to_writer(entry)) \div 2, Len(to_writer(entry))}

\* Storage::new on an empty directory.
StorageNew ==
    /\ dir = [q \in {} |-> <<>>]
    /\ wal_call = [op |-> "new", args |-> <<>>]
    /\ wal_result = [ok |-> TRUE, value |-> Unit]
    /\ written = [id \in FileIds |-> None]

\* A Storage call op(args) with outcome r; w is the history after it.
WalCall(op, args, r, w) ==
    /\ dir' = r.dir
    /\ wal_call' = [op |-> op, args |-> args]
    /\ wal_result' = [ok |-> r.ok, value |-> r.value]
    /\ written' = w
    /\ UNCHANGED <<headerVars, codecVars, run>>

\* The history without the ids first..last.
Forget(first, last) ==
    [id \in FileIds |-> IF first <= id /\ id <= last THEN None ELSE written[id]]

WriteEntry ==
    \E id \in FileIds, entry \in WalEntries :
        \E accepted \in Accepted(entry) :
            LET r == write_entry(dir, id, entry, accepted)
            IN  WalCall("write_entry", <<id, entry>>, r,
                        IF r.ok THEN [written EXCEPT ![id] = Some(entry)] ELSE written)

ReadEntry ==
    \E id \in FileIds : WalCall("read_entry", <<id>>, read_entry(dir, id), written)

RemoveEntry ==
    \E id \in FileIds :
        WalCall("remove_entry", <<id>>, remove_entry(dir, id), Forget(id, id))

RemoveEntries ==
    \E first \in FileIds, last \in FileIds :
        WalCall("remove_entries", <<first, last>>, remove_entries(dir, first, last),
                Forget(first, last))

\* take_entries calls remove_entry only when every read succeeded.
TakeEntries ==
    \E first \in FileIds, last \in FileIds :
        WalCall("take_entries", <<first, last>>, take_entries(dir, first, last),
                IF \A id \in first..last : read_entry(dir, id).ok
                THEN Forget(first, last)
                ELSE written)

\* ----------------------------------------------------------- specification

\* SegmentHeader::new(b, t, k), in either build; no file name yet.
New(b, t, k) ==
    /\ overflow_checks \in BOOLEAN
    /\ header = SegmentHeader(b, t, k)
    /\ prev = header
    /\ call = [op |-> "new", args |-> <<>>]
    /\ result = [panicked |-> FALSE, value |-> Unit]
    /\ tx_calls = 0
    /\ name = <<>>
    /\ origin = NoOrigin
    /\ parsed = NotParsed
    /\ StorageNew

\* SegmentHeader::new with any arguments.
Init ==
    /\ \E b \in Ranges, t \in OptRanges, k \in SnapshotSegment : New(b, t, k)
    /\ run = NoRun

Next ==
    \/ BlockStart
    \/ BlockEnd
    \/ TxStart
    \/ TxEnd
    \/ TxLen
    \/ BlockLen
    \/ Start
    \/ IncrementBlock
    \/ IncrementTx
    \/ Prune
    \/ SetBlockRange
    \/ SetTxRange

Spec == Init /\ [][Next]_vars

\* A header constructed with ordered ranges and then only appended to and
\* pruned.
Ordered(r) == r.start <= r.end

MutateInit ==
    \E b \in Ranges, t \in OptRanges, k \in SnapshotSegment :
        /\ Ordered(b)
        /\ t # None => Ordered(t[1])
        /\ New(b, t, k)
        /\ run = NoRun

MutateNext ==
    \/ IncrementBlock
    \/ IncrementTx
    \/ Prune

MutateSpec == MutateInit /\ [][MutateNext]_vars

\* A Headers header constructed without a transaction range, under every
\* mutation.
HeadersInit ==
    /\ \E b \in Ranges : New(b, None, "Headers")
    /\ run = NoRun

HeadersNext ==
    \/ IncrementBlock
    \/ IncrementTx
    \/ Prune
    \/ SetBlockRange
    \/ SetTxRange

HeadersSpec == HeadersInit /\ [][HeadersNext]_vars

\* The file name codec alone: a header at rest, names made by the producer or
\* found in the directory, each decoded by the consumer.
CodecInit ==
    /\ overflow_checks = FALSE
    /\ header = SegmentHeader(SegmentRangeInclusive(0, 0), None, "Headers")
    /\ prev = header
    /\ call = [op |-> "new", args |-> <<>>]
    /\ result = [panicked |-> FALSE, value |-> Unit]
    /\ tx_calls = 0
    /\ name = <<>>
    /\ origin = NoOrigin
    /\ parsed = NotParsed
    /\ StorageNew
    /\ run = NoRun

CodecNext ==
    \/ Filename
    \/ FilenameWithConfiguration
    \/ DirEntry
    \/ ParseFilename

CodecSpec == CodecInit /\ [][CodecNext]_vars

\* A header of any construction, appended to some times and then pruned by as
\* many.
UndoInit ==
    /\ \E b \in Ranges, t \in OptRanges, k \in SnapshotSegment : New(b, t, k)
    /\ run = RunFrom(header)

UndoNext ==
    \/ AppendTx
    \/ AppendBlock
    \/ PruneAppended

UndoSpec == UndoInit /\ [][UndoNext]_vars

\* The WAL storage alone: a header at rest, entries written, read and removed.
WalInit == CodecInit

WalNext ==
    \/ WriteEntry
    \/ ReadEntry
    \/ RemoveEntry
    \/ RemoveEntries
    \/ TakeEntries

WalSpec == WalInit /\ [][WalNext]_vars

\* A Transactions or Receipts header constructed with ordered ranges, the
\* transaction range present, then only appended to and pruned; run.base keeps the header as constructed.
TxRangeInit ==
    /\ \E b \in Ranges, t \in Ranges, k \in SnapshotSegment :
           /\ TracksTxKind(k)
           /\ Ordered(b)
           /\ Ordered(t)
           /\ New(b, Some(t), k)
    /\ run = RunFrom(header)

TxRangeNext ==
    \/ IncrementTx
    \/ Prune

TxRangeSpec == TxRangeInit /\ [][TxRangeNext]_vars

\* ================================================================ claims

TracksTx(h) == TracksTxKind(h.segment)

\* ------------------------------------------------------------------ C1
\* C1: for every segment kind and every range with start <= end,
\* parse_filename(filename(kind, range)) is Some((kind, range)).
C1_RoundTrip ==
    (origin.op = "filename" /\ Ordered(origin.block_range) /\ parsed # NotParsed)
        => parsed = Parsed(Some(<<origin.segment, origin.block_range>>))

\* A Receipts file of a one-digit start and a two-digit end, decoded.
C1_Witness ==
    /\ origin.op = "filename"
    /\ origin.segment = "Receipts"
    /\ origin.block_range = SegmentRangeInclusive(2, MaxU64)
    /\ parsed = Parsed(Some(<<"Receipts", SegmentRangeInclusive(2, MaxU64)>>))

\* ------------------------------------------------------------------ C2
\* C2: for every kind, filters, compression and range with start <= end,
\* parse_filename(filename_with_configuration(kind, filters, compression,
\* range)) is Some((kind, range)): the configuration suffix changes nothing.
C2_ConfiguredRoundTrip ==
    (/\ origin.op = "filename_with_configuration"
     /\ Ordered(origin.block_range)
     /\ parsed # NotParsed)
        => parsed = Parsed(Some(<<origin.segment, origin.block_range>>))

\* A Transactions file with filters and a dictionary, decoded.
C2_Witness ==
    /\ origin.op = "filename_with_configuration"
    /\ origin.config = <<WithFilters("Cuckoo", "Fmph"), "ZstdWithDictionary">>
    /\ origin.segment = "Transactions"
    /\ origin.block_range = SegmentRangeInclusive(2, MaxU64 - 1)
    /\ parsed = Parsed(Some(<<"Transactions", SegmentRangeInclusive(2, MaxU64 - 1)>>))

\* ------------------------------------------------------------------ C3
\* z characters "0"
Zeros(z) == [i \in 1..z |-> "0"]

\* The texts that denote the u64 n: its decimal digits, with any number of
\* leading zeros and an optional leading '+'.
DenotesU64(t, n) ==
    \E z \in 0..Len(t) :
        \/ t = Zeros(z) \o to_string(n)
        \/ t = <<"+">> \o Zeros(z) \o to_string(n)

IsU64Text(t) == \E n \in U64 : DenotesU64(t, n)

U64Of(t) == CHOOSE n \in U64 : DenotesU64(t, n)

\* A name, given by its pieces, that parse_filename must reject.
Malformed(tokens) ==
    \/ tokens[1] # SNAPSHOT
    \/ Len(tokens) < 2
    \/ tokens[2] \notin {as_ref(k) : k \in SnapshotSegment}
    \/ Len(tokens) < 3
    \/ ~IsU64Text(tokens[3])
    \/ Len(tokens) < 4
    \/ ~IsU64Text(tokens[4])
    \/ U64Of(tokens[3]) > U64Of(tokens[4])

\* C3: parse_filename returns a value for every name, None when the first
\* piece is not "snapshot", the second no kind tag, the third or fourth
\* missing or no u64, or start > end; every Some((kind, range)) it returns has
\* range.start <= range.end.
C3_RejectsMalformed ==
    /\ (origin.op = "read_dir" /\ parsed # NotParsed /\ Malformed(origin.tokens))
           => parsed = Parsed(None)
    /\ (parsed # NotParsed /\ parsed[1] # None)
           => /\ parsed[1][1][1] \in SnapshotSegment
              /\ parsed[1][1][2].start \in U64
              /\ parsed[1][1][2].end \in U64
              /\ Ordered(parsed[1][1][2])

\* snapshot_headers_<MaxU64>_2, start > end, was rejected.
C3_Witness ==
    /\ origin.op = "read_dir"
    /\ origin.tokens = <<SNAPSHOT, as_ref("Headers"), to_string(MaxU64), to_string(2)>>
    /\ parsed = Parsed(None)

\* ------------------------------------------------------------------ C4
\* C4: for a Transactions or Receipts header whose tx_range is initially None
\* or ordered, after any sequence of increment_block, increment_tx and prune
\* calls tx_range is None or tx_range.start <= tx_range.end.
C4_TxRangeOrdered ==
    TracksTx(header) => (header.tx_range = None \/ Ordered(header.tx_range[1]))

\* ------------------------------------------------------------------ C5
\* C5: a Headers header created with tx_range = None has tx_range = None after
\* any sequence of increment_block, increment_tx, prune, set_block_range and
\* set_tx_range calls.
C5_HeadersNeverHaveTxRange ==
    header.segment = "Headers" => header.tx_range = None

\* ------------------------------------------------------------------ C6
\* C6: a header constructed with block_range.start <= block_range.end keeps
\* block_range.start <= block_range.end through any sequence of
\* increment_block, increment_tx and prune calls.
C6_BlockRangeOrdered == Ordered(header.block_range)

\* ------------------------------------------------------------------ C7
\* The last call was increment_tx on a Transactions or Receipts header.
IncrementedTx == call.op = "increment_tx" /\ TracksTx(prev)

\* C7 as stated: increment_tx sets tx_range to Some([0, 0]) when it was None
\* and otherwise adds exactly 1 to tx_range.end, start unchanged; so after n
\* calls from None, tx_range = Some([0, n - 1]).
C7_IncrementTxAlwaysAdds ==
    /\ IncrementedTx =>
           /\ ~result.panicked
           /\ prev.tx_range = None
                  => header.tx_range = Some(SegmentRangeInclusive(0, 0))
           /\ prev.tx_range # None
                  => /\ header.tx_range # None
                     /\ header.tx_range[1].start = prev.tx_range[1].start
                     /\ header.tx_range[1].end = prev.tx_range[1].end + 1
    /\ tx_calls >= 1
           => header.tx_range = Some(SegmentRangeInclusive(0, tx_calls - 1))

\* C7 amended: the same, the addition only when tx_range.end is below the
\* largest u64 (at the largest the call overflows), and n at most the number
\* of u64 values.
C7_IncrementTx ==
    /\ IncrementedTx /\ prev.tx_range = None
           => /\ ~result.panicked
              /\ header = [prev EXCEPT !.tx_range = Some(SegmentRangeInclusive(0, 0))]
    /\ IncrementedTx /\ prev.tx_range # None /\ prev.tx_range[1].end < MaxU64
           => /\ ~result.panicked
              /\ header.tx_range # None
              /\ header.tx_range[1].start = prev.tx_range[1].start
              /\ header.tx_range[1].end = prev.tx_range[1].end + 1
    /\ tx_calls \in 0..(MaxU64 + 1)
    /\ tx_calls >= 1
           => header.tx_range = Some(SegmentRangeInclusive(0, tx_calls - 1))

\* Two increment_tx calls from None on a header whose blocks start high.
C7_Witness ==
    /\ IncrementedTx
    /\ tx_calls = 2
    /\ header.block_range.start = MaxU64
    /\ header.tx_range = Some(SegmentRangeInclusive(0, 1))

\* ------------------------------------------------------------------ C8
\* C8: on a Transactions or Receipts header prune(num) changes nothing when
\* tx_range is None, sets tx_range to None when num > tx_range.end, and
\* otherwise sets tx_range.end to tx_range.end - num, start unchanged.
C8_PruneTx ==
    (call.op = "prune" /\ TracksTx(prev)) =>
        /\ ~result.panicked
        /\ prev.tx_range = None => header = prev
        /\ (prev.tx_range # None /\ call.args[1] > prev.tx_range[1].end)
               => header = [prev EXCEPT !.tx_range = None]
        /\ (prev.tx_range # None /\ call.args[1] <= prev.tx_range[1].end)
               => header = [prev EXCEPT !.tx_range =
                               Some(SegmentRangeInclusive(
                                        prev.tx_range[1].start,
                                        prev.tx_range[1].end - call.args[1]))]

\* A prune by more than the end of a range that starts above 0.
C8_Witness ==
    /\ call.op = "prune"
    /\ prev.segment = "Transactions"
    /\ prev.tx_range = Some(SegmentRangeInclusive(1, 1))
    /\ call.args = <<2>>
    /\ header.tx_range = None

\* ------------------------------------------------------------------ C9
\* C9: on a Headers header prune(num) sets block_range.end to
\* max(block_range.end - num, 0) and leaves block_range.start unchanged.
C9_PruneHeaders ==
    (call.op = "prune" /\ prev.segment = "Headers") =>
        /\ ~result.panicked
        /\ header.block_range.start = prev.block_range.start
        /\ header.block_range.end =
               IF prev.block_range.end - call.args[1] > 0
               THEN prev.block_range.end - call.args[1]
               ELSE 0

\* A prune by more than the end: the end saturates at 0, the start stays.
C9_Witness ==
    /\ call.op = "prune"
    /\ prev.segment = "Headers"
    /\ prev.block_range = SegmentRangeInclusive(1, 1)
    /\ call.args = <<2>>
    /\ header.block_range = SegmentRangeInclusive(1, 0)

\* ----------------------------------------------------------------- C10
\* The last call was an accessor of the transaction range, made while
\* tx_range was None.
TxAccessorOnNone ==
    /\ prev.tx_range = None
    /\ \/ call.op \in {"tx_start", "tx_end", "tx_len"}
       \/ call.op = "start" /\ TracksTx(prev)

\* C10 as stated: tx_start, tx_end, tx_len and start() (on a Transactions or
\* Receipts header) called with tx_range = None yield an error result and do
\* not abort.
C10_AccessorsNeverAbort == TxAccessorOnNone => ~result.panicked

\* C10 amended: each of them panics ("should exist") when tx_range is None,
\* returning nothing and leaving the header as it was.
C10_AccessorsPanicOnNone ==
    TxAccessorOnNone =>
        /\ result.panicked
        /\ result.value = <<>>
        /\ header = prev

\* start() panicked on a Receipts header without a transaction range.
C10_Witness ==
    /\ call.op = "start"
    /\ prev.segment = "Receipts"
    /\ prev.tx_range = None
    /\ result.panicked

\* ----------------------------------------------------------------- C11
\* C11: start() returns block_range.start for a Headers header whatever
\* tx_range is, and tx_range.start for a Transactions or Receipts header whose
\* tx_range is present, whatever block_range is.
C11_StartDispatch ==
    call.op = "start" =>
        /\ prev.segment = "Headers"
               => /\ ~result.panicked
                  /\ result.value = Some(prev.block_range.start)
        /\ (TracksTx(prev) /\ prev.tx_range # None)
               => /\ ~result.panicked
                  /\ result.value = Some(prev.tx_range[1].start)

\* start() of a Receipts header whose transactions start elsewhere than its
\* blocks.
C11_Witness ==
    /\ call.op = "start"
    /\ prev.segment = "Receipts"
    /\ prev.block_range.start = 0
    /\ prev.tx_range # None
    /\ prev.tx_range[1].start = MaxU64
    /\ result.value = Some(MaxU64)

\* ----------------------------------------------------------------- C12
\* C12: for every kind and every header with block_range.end below the
\* largest u64, increment_block adds exactly 1 to block_range.end and leaves
\* block_range.start, tx_range and the kind unchanged.
C12_IncrementBlock ==
    (call.op = "increment_block" /\ prev.block_range.end < MaxU64) =>
        /\ ~result.panicked
        /\ header = [prev EXCEPT !.block_range.end = prev.block_range.end + 1]

\* increment_block on a Transactions header that has a transaction range.
C12_Witness ==
    /\ call.op = "increment_block"
    /\ prev.segment = "Transactions"
    /\ prev.tx_range = Some(SegmentRangeInclusive(0, 1))
    /\ prev.block_range = SegmentRangeInclusive(1, 1)
    /\ header.block_range = SegmentRangeInclusive(1, 2)

\* ----------------------------------------------------------------- C13
\* The range r holds fewer elements than there are u64 values.
LenFits(r) == Ordered(r) /\ r.end - r.start + 1 <= MaxU64

\* C13: for every header with block_range.start <= block_range.end whose
\* length fits in a u64, block_len() returns end - start + 1 without overflow
\* or abort, also when end is the largest u64 and start >= 1; and tx_len()
\* returns tx_range.end - tx_range.start + 1 when tx_range is present and
\* ordered.
C13_LenWithoutOverflow ==
    /\ (call.op = "block_len" /\ LenFits(prev.block_range))
           => /\ ~result.panicked
              /\ result.value =
                     Some(prev.block_range.end - prev.block_range.start + 1)
    /\ (call.op = "tx_len" /\ prev.tx_range # None /\ LenFits(prev.tx_range[1]))
           => /\ ~result.panicked
              /\ result.value =
                     Some(prev.tx_range[1].end - prev.tx_range[1].start + 1)

\* ----------------------------------------------------------------- C14
\* The lowercase tag of a kind.
KindTag(k) ==
    CASE k = "Headers" -> <<"h", "e", "a", "d", "e", "r", "s">>
      [] k = "Transactions" ->
            <<"t", "r", "a", "n", "s", "a", "c", "t", "i", "o", "n", "s">>
      [] k = "Receipts" -> <<"r", "e", "c", "e", "i", "p", "t", "s">>

\* The number a sequence of decimal digits stands for.
RECURSIVE DecimalValue(_)
DecimalValue(t) ==
    IF t = <<>> THEN 0
    ELSE 10 * DecimalValue(SubSeq(t, 1, Len(t) - 1))
             + (CHOOSE d \in 0..9 : DigitChars[d + 1] = t[Len(t)])

\* t is the decimal numeral of n: digits only, no sign, no padding.
IsDecimalOf(t, n) ==
    /\ Len(t) >= 1
    /\ \A i \in 1..Len(t) : \E d \in 1..10 : DigitChars[d] = t[i]
    /\ Len(t) > 1 => t[1] # "0"
    /\ DecimalValue(t) = n

\* The pieces of s between the separators.
Pieces(s) ==
    LET cuts == <<0>> \o [i \in 1..Cardinality({j \in 1..Len(s) : s[j] = SEP}) |->
                             CHOOSE j \in 1..Len(s) :
                                 /\ s[j] = SEP
                                 /\ Cardinality({l \in 1..j : s[l] = SEP}) = i]
                      \o <<Len(s) + 1>>
    IN  [i \in 1..(Len(cuts) - 1) |-> SubSeq(s, cuts[i] + 1, cuts[i + 1] - 1)]

\* C14: filename(kind, range) is exactly the four pieces "snapshot", the
\* lowercase kind tag, the decimal start and the decimal end, joined by '_'.
C14_FilenameFormat ==
    origin.op = "filename" =>
        LET pieces == Pieces(name)
        IN  /\ Len(pieces) = 4
            /\ pieces[1] = <<"s", "n", "a", "p", "s", "h", "o", "t">>
            /\ pieces[2] = KindTag(origin.segment)
            /\ IsDecimalOf(pieces[3], origin.block_range.start)
            /\ IsDecimalOf(pieces[4], origin.block_range.end)

\* filename(Headers, [2, 10]) is "snapshot_headers_2_10".
C14_Witness ==
    /\ origin.op = "filename"
    /\ origin.segment = "Headers"
    /\ origin.block_range = SegmentRangeInclusive(2, 10)
    /\ name = <<"s", "n", "a", "p", "s", "h", "o", "t", "_",
                "h", "e", "a", "d", "e", "r", "s", "_", "2", "_", "1", "0">>

\* ----------------------------------------------------------------- C15
\* The tag of a filters value.
FilterTag(f) ==
    IF f = WithoutFilters THEN <<"n", "o", "n", "e">>
    ELSE <<"c", "u", "c", "k", "o", "o", "-", "f", "m", "p", "h">>

\* The tag of a compression.
CompressionTag(c) ==
    CASE c = "Lz4" -> <<"l", "z", "4">>
      [] c = "Zstd" -> <<"z", "s", "t", "d">>
      [] c = "ZstdWithDictionary" -> <<"z", "s", "t", "d", "-", "d", "i", "c", "t">>

\* C15: filename_with_configuration(kind, filters, compression, range) is
\* filename(kind, range), "_", the filter tag, "_", the compression tag; no
\* tag holds a '_', so the name has exactly six pieces.
C15_ConfiguredFormat ==
    origin.op = "filename_with_configuration" =>
        LET pieces == Pieces(name)
        IN  /\ name = filename(origin.segment, origin.block_range) \o <<"_">>
                          \o FilterTag(origin.config[1]) \o <<"_">>
                          \o CompressionTag(origin.config[2])
            /\ Len(pieces) = 6
            /\ pieces[5] = FilterTag(origin.config[1])
            /\ pieces[6] = CompressionTag(origin.config[2])

\* snapshot_receipts_0_2_cuckoo-fmph_zstd-dict
C15_Witness ==
    /\ origin.op = "filename_with_configuration"
    /\ origin.segment = "Receipts"
    /\ origin.block_range = SegmentRangeInclusive(0, 2)
    /\ name = <<"s", "n", "a", "p", "s", "h", "o", "t", "_",
                "r", "e", "c", "e", "i", "p", "t", "s", "_", "0", "_", "2", "_",
                "c", "u", "c", "k", "o", "o", "-", "f", "m", "p", "h", "_",
                "z", "s", "t", "d", "-", "d", "i", "c", "t">>

\* ----------------------------------------------------------------- C16
\* C16: set_block_range(s, e) leaves block_range = [s, e] for any s and e,
\* s > e included, and tx_range unchanged; set_tx_range(s, e) leaves
\* tx_range = Some([s, e]) whether it was None or Some, and block_range
\* unchanged.
C16_SetRanges ==
    /\ call.op = "set_block_range"
           => /\ ~result.panicked
              /\ header = [prev EXCEPT !.block_range =
                              SegmentRangeInclusive(call.args[1], call.args[2])]
    /\ call.op = "set_tx_range"
           => /\ ~result.panicked
              /\ header = [prev EXCEPT !.tx_range =
                              Some(SegmentRangeInclusive(call.args[1], call.args[2]))]

\* set_tx_range with start > end on a header without a transaction range.
C16_Witness ==
    /\ call.op = "set_tx_range"
    /\ call.args = <<MaxU64, 1>>
    /\ prev.tx_range = None
    /\ header.tx_range = Some(SegmentRangeInclusive(MaxU64, 1))

\* ----------------------------------------------------------------- C18
\* The first four pieces of a name, joined again.
FirstFour(s) ==
    LET pieces == Pieces(s)
    IN  IF Len(pieces) <= 4 THEN s ELSE join(SubSeq(pieces, 1, 4))

\* C18: the result of parse_filename depends only on the first four pieces of
\* the name: it is the result for those four pieces alone, so two names that
\* agree on them get the same result, whatever follows.
C18_OnlyFirstFourPieces ==
    parsed # NotParsed => parsed = Parsed(parse_filename(FirstFour(name)))

\* A name of five pieces, the fifth no configuration, decoded.
C18_Witness ==
    /\ origin.op = "read_dir"
    /\ Len(origin.tokens) = 5
    /\ origin.tokens[5] = SNAPSHOT
    /\ parsed # NotParsed
    /\ parsed[1] # None

\* ----------------------------------------------------------------- C19
\* C19: prune(num) on a Transactions or Receipts header leaves block_range
\* unchanged, on a Headers header it leaves tx_range unchanged, and prune(0)
\* leaves the whole header unchanged for every kind.
C19_PruneFrame ==
    call.op = "prune" =>
        /\ header.segment = prev.segment
        /\ TracksTx(prev) => header.block_range = prev.block_range
        /\ prev.segment = "Headers" => header.tx_range = prev.tx_range
        /\ call.args[1] = 0 => header = prev

\* A prune that drops the transaction range and keeps the block range.
C19_Witness ==
    /\ call.op = "prune"
    /\ call.args = <<2>>
    /\ prev.segment = "Transactions"
    /\ prev.block_range = SegmentRangeInclusive(1, MaxU64)
    /\ prev.tx_range = Some(SegmentRangeInclusive(0, 1))
    /\ header.tx_range = None
    /\ header.block_range = SegmentRangeInclusive(1, MaxU64)

\* ----------------------------------------------------------------- C17
\* C17: in the WAL storage, after write_entry(id, entry) succeeded,
\* read_entry(id) returns an entry equal to the one written, for as long as no
\* remove of that id intervenes; writes to other ids do not affect it.
C17_ReadsWhatWasWritten ==
    (wal_call.op = "read_entry" /\ written[wal_call.args[1]] # None) =>
        /\ wal_result.ok
        /\ wal_result.value = written[wal_call.args[1]][1]

\* Entry 1 read back while entry 0 holds a different entry, written later or
\* earlier.
C17_Witness ==
    /\ wal_call = [op |-> "read_entry", args |-> <<1>>]
    /\ written[1] = Some(WalEntry("Commit", "ChainReorged"))
    /\ written[0] = Some(WalEntry("Canonicalize", "ChainCommitted"))
    /\ wal_result = [ok |-> TRUE, value |-> WalEntry("Commit", "ChainReorged")]

\* ----------------------------------------------------------------- C20
\* C20: prune(n) exactly undoes n appends of the kind's tracked counter: for a
\* Transactions or Receipts header, tx_range None or Some, with no u64
\* overflow, n >= 1 increment_tx calls followed by prune(n) restore the
\* original header, tx_range None to None included; for a Headers header, n
\* increment_block calls followed by prune(n) restore the original
\* block_range.
C20_PruneUndoesAppends ==
    (run.pruned /\ ~run.overflow) =>
        /\ ~result.panicked
        /\ TracksTx(run.base[1]) => header = run.base[1]
        /\ run.base[1].segment = "Headers"
               => header.block_range = run.base[1].block_range

\* Two increment_tx calls on a Transactions header without a transaction
\* range, then prune(2): the range is None again.
C20_Witness ==
    /\ run.pruned
    /\ run.n = 2
    /\ run.base[1].segment = "Transactions"
    /\ run.base[1].tx_range = None
    /\ prev.tx_range = Some(SegmentRangeInclusive(0, 1))
    /\ call = [op |-> "prune", args |-> <<2>>]
    /\ header.tx_range = None

\* ----------------------------------------------------------------- C21
\* C21: for a Transactions or Receipts header whose tx_range is Some([s, e]),
\* after any sequence of increment_tx and prune calls, whenever tx_range is
\* present its start still equals s.
C21_TxStartNeverChanges ==
    (/\ run.base # <<>>
     /\ TracksTx(run.base[1])
     /\ run.base[1].tx_range # None
     /\ header.tx_range # None)
        => header.tx_range[1].start = run.base[1].tx_range[1].start

\* ----------------------------------------------------------------- C22
\* C22: parse_filename accepts only canonical names: whenever
\* parse_filename(name) is Some((kind, range)), the first four pieces of name
\* are exactly the pieces of filename(kind, range), so two names that differ
\* in their first four pieces never decode to the same (kind, range).
C22_OnlyCanonicalNames ==
    (parsed # NotParsed /\ parsed[1] # None) =>
        LET kind == parsed[1][1][1]
            range == parsed[1][1][2]
            pieces == Pieces(name)
        IN  /\ Len(pieces) >= 4
            /\ SubSeq(pieces, 1, 4) = Pieces(filename(kind, range))

\* ----------------------------------------------------------------- C23
\* C23: in the WAL storage, write_entry(id, entry) on an id that holds an
\* entry returns an error and leaves the stored entry unchanged, so that a
\* later read_entry(id) returns the earlier entry; a write to an id succeeds
\* only when the id holds no entry, that is, after it has been removed.
C23_WriteNeverOverwrites ==
    [][wal_call'.op = "write_entry" =>
          LET id == wal_call'.args[1]
          IN  /\ written[id] # None
                     => /\ ~wal_result'.ok
                        /\ dir' = dir
                        /\ written' = written
                        /\ read_entry(dir', id) = WalOk(dir', written[id][1])
              /\ wal_result'.ok => written[id] = None]_vars

\* A write of another entry to an id that holds one was refused.
C23_Witness ==
    /\ wal_call = [op |-> "write_entry",
                   args |-> <<1, WalEntry("Canonicalize", "ChainCommitted")>>]
    /\ ~wal_result.ok
    /\ written[1] = Some(WalEntry("Commit", "ChainReorged"))
    /\ dir[<<"1", ".", "w", "a", "l">>] = to_writer(WalEntry("Commit", "ChainReorged"))

\* ----------------------------------------------------------------- C24
\* The ids first..=last, ascending.
IdsOf(first, last) ==
    [i \in 1..(IF first > last THEN 0 ELSE last - first + 1) |-> first + i - 1]

\* C24: in the WAL storage, take_entries(range) on success returns the
\* entries of every id in the range in ascending id order, and afterwards
\* none of those ids is present while every other file is as it was; if
\* reading any id in the range fails, a missing id for one, it returns an
\* error and no entry has been removed from the storage.
C24_TakeEntries ==
    [][wal_call'.op = "take_entries" =>
          LET ids == IdsOf(wal_call'.args[1], wal_call'.args[2])
              taken == {file_path(ids[i]) : i \in DOMAIN ids}
          IN  IF \A i \in DOMAIN ids : read_entry(dir, ids[i]).ok
              THEN /\ wal_result'.ok
                   /\ wal_result'.value =
                          [i \in DOMAIN ids |-> read_entry(dir, ids[i]).value]
                   /\ DOMAIN dir' = DOMAIN dir \ taken
                   /\ \A q \in DOMAIN dir' : dir'[q] = dir[q]
              ELSE /\ ~wal_result'.ok
                   /\ dir' = dir]_vars

\* Two entries taken in the order of their ids, the second id written first
\* or not, and a third file left in place.
C24_Witness ==
    /\ wal_call = [op |-> "take_entries", args |-> <<0, 1>>]
    /\ wal_result = [ok |-> TRUE,
                     value |-> <<WalEntry("Canonicalize", "ChainCommitted"),
                                 WalEntry("Commit", "ChainReorged")>>]
    /\ DOMAIN dir = {<<"2", ".", "w", "a", "l">>}

====
